---- MODULE Spec2Model ----
(***************************************************************************)
(* A model of the Haiku capture backend of libpcap (pcap-haiku.c): the     *)
(* capture handle, the two sockets it owns, the interface-wide flags word  *)
(* it shares with every other user of the interface, and the operations    *)
(* create / activate / read / stats / inject / cleanup.                    *)
(***************************************************************************)
EXTENDS Integers, Sequences, FiniteSets, TLC

VARIABLES
    handles,    \* handles[s]: the pcap_t and its struct pcap_haiku
    openFds,    \* the descriptors the process holds open
    ifFlags,    \* the interface's flags word (a set of flag names)
    kdropped,   \* the kernel's receive.dropped counter of the interface
    hist,       \* hist[s]: what the reads of the handle have done so far,
                \* and what happened to the flag around its session
    world,      \* which answers the OS may give to an activation
    quota,      \* events still to come: operations on activated handles, kernel drops
    last        \* the last operation: its handle, OS calls and result

vars == <<handles, openFds, ifFlags, kdropped, hist, world, quota, last>>

----------------------------------------------------------------------------
(* Bounds of the model *)

MaxOps == 3
MaxOpsTwo == 1
MaxIntr == 1
MaxKernelDrops == 0

(* Program constants *)

PCAP_ERROR == -1
PCAP_ERROR_BREAK == -2
PCAP_ERROR_NO_SUCH_DEVICE == -5
PCAP_WARNING_PROMISC_NOTSUP == 2
DLT_UNSET == 0
DLT_EN10MB == 1
DLT_RAW == 12
MAXIMUM_SNAPLEN == 262144
BUFSIZE == 65536

IFF_PROMISC == "IFF_PROMISC"
IFF_UP == "IFF_UP"
AllFlagWords == SUBSET {IFF_PROMISC, IFF_UP}

IFT_ETHER == "IFT_ETHER"
IFT_TUNNEL == "IFT_TUNNEL"
IFT_LOOP == "IFT_LOOP"
IFT_PPP == "IFT_PPP"
IfTypes == {IFT_ETHER, IFT_TUNNEL, IFT_LOOP, IFT_PPP}
Families == {"AF_LINK", "AF_INET"}
Errnos == {"EINVAL", "ENOMEM"}

Sessions == {"s1", "s2"}

(* The OS calls of activation, in the order the code issues them. *)
ActivateCalls == <<"socket_inet", "SIOCGIFSTATS", "socket_link", "SIOCGIFADDR",
                   "SIOCSPACKETCAP", "malloc", "SIOCGIFFLAGS", "SIOCSIFFLAGS">>

RangeOf(q) == {q[i] : i \in 1..Len(q)}

(* What the environment answers to one activation or cleanup: which call   *)
(* of activation fails (none, or the first one that does) and with which   *)
(* errno, the address record SIOCGIFADDR returns, the answers to the       *)
(* flags ioctls of cleanup, and the bytes a stale request record holds.    *)
AllOracles ==
    [fail : RangeOf(ActivateCalls) \cup {"none"}, errno : Errnos,
     family : Families, sdl_type : IfTypes,
     cget : BOOLEAN, cset : BOOLEAN, stale : AllFlagWords]

(* One oracle for each way an activation can go: the fields no call of     *)
(* the run reads are held at one value.                                    *)
NoAddress == {"socket_inet", "SIOCGIFSTATS", "socket_link", "SIOCGIFADDR"}
Oracles ==
    {o \in AllOracles :
        /\ o.fail \in {"none", "malloc"} => o.errno = "EINVAL"
        /\ o.fail \in NoAddress => o.family = "AF_LINK"
        /\ (o.fail \in NoAddress \/ o.family # "AF_LINK") => o.sdl_type = IFT_ETHER
        /\ o.cget => o.stale = {}
        /\ (o.fail \in {"none", "SIOCSIFFLAGS", "socket_inet"}) =>
               (o.cget /\ o.cset /\ o.stale = {})}

(* The quiet world: a healthy Ethernet interface, on which no call fails   *)
(* but the request to set the flags.                                       *)
QuietOracles ==
    {o \in Oracles : /\ o.fail \in {"none", "SIOCSIFFLAGS"}
                     /\ o.family = "AF_LINK" /\ o.sdl_type = IFT_ETHER}

OraclesOf(w) == IF w = "quiet" THEN QuietOracles ELSE Oracles

Call(op, fd, arg) == [op |-> op, fd |-> fd, arg |-> arg]

----------------------------------------------------------------------------
(* Unsigned 32-bit counters, as a pair of 16-bit halves. *)

U32Of(n) == [hi |-> (n \div 65536) % 65536, lo |-> n % 65536]
U32Max == [hi |-> 65535, lo |-> 65535]

(* x + 1 modulo 2^32 *)
Inc32(x) ==
    IF x.lo < 65535 THEN [x EXCEPT !.lo = x.lo + 1]
    ELSE [hi |-> (x.hi + 1) % 65536, lo |-> 0]

Sub32_NoBorrow(x, y) ==
    [hi |-> (x.hi - y.hi) % 65536, lo |-> (x.lo - y.lo) % 65536]

(* x - y modulo 2^32 *)
Sub32(x, y) ==
    LET borrow == IF x.lo < y.lo THEN 1 ELSE 0
    IN [hi |-> (x.hi - y.hi - borrow) % 65536, lo |-> (x.lo - y.lo) % 65536]

----------------------------------------------------------------------------
(* Creation *)

(* pcapint_create_interface: the handle comes zeroed from the common       *)
(* allocator with its capture descriptor unset; the backend marks the      *)
(* auxiliary socket unset and copies the device name into the request.     *)
CreatedHandle(promisc, snapshot) ==
    [state |-> "created", ret |-> 0,
     fd |-> -1, selectable_fd |-> -1, aux_socket |-> -1,
     promisc |-> promisc, orig_promisc |-> 0,
     snapshot |-> snapshot, bufsize |-> 0, buffer |-> FALSE,
     linktype |-> DLT_UNSET, ops |-> FALSE,
     break_loop |-> 0, filter |-> FALSE,
     ps_recv |-> U32Of(0), ps_drop |-> U32Of(0), ps_ifdrop |-> U32Of(0)]

----------------------------------------------------------------------------
(* The OS primitives *)

(* socket(): the lowest descriptor number the process does not hold. *)
LowestFree(fds) ==
    CHOOSE n \in 3..(3 + Cardinality(fds)) :
        n \notin fds /\ \A m \in 3..(n - 1) : m \in fds

(* dgram_socket: an open descriptor, or PCAP_ERROR when socket() fails. *)
dgram_socket(fds, ok) == IF ok THEN LowestFree(fds) ELSE PCAP_ERROR

ioctl_ifreq_NeverFails(ok) == 0

(* ioctl_ifreq: 0, or PCAP_ERROR when ioctl() fails. *)
ioctl_ifreq(ok) == IF ok THEN 0 ELSE PCAP_ERROR

(* get_promisc: SIOCGIFFLAGS on the auxiliary socket into the handle's     *)
(* request record; PCAP_ERROR, or whether IFF_PROMISC is set.  word is     *)
(* the ifr_flags the request record holds afterwards: the interface's      *)
(* flags, or, when the ioctl failed, what the bytes of the union last      *)
(* written by another request read as.                                     *)
get_promisc(h, flags, ok, stale) ==
    LET calls == <<Call("SIOCGIFFLAGS", h.aux_socket, {})>>
    IN IF ioctl_ifreq(ok) < 0
       THEN [ret |-> PCAP_ERROR, word |-> stale, calls |-> calls]
       ELSE [ret |-> IF IFF_PROMISC \in flags THEN 1 ELSE 0,
             word |-> flags, calls |-> calls]

set_promisc_IgnoresEnable(h, flags, cur, enable, ok) ==
    LET word == cur \cup {IFF_PROMISC}
    IN [flags |-> IF ok THEN word ELSE flags,
        ret |-> IF ok THEN 0 ELSE PCAP_ERROR,
        calls |-> <<Call("SIOCSIFFLAGS", h.aux_socket, word)>>]

(* set_promisc: flips IFF_PROMISC in the request record's ifr_flags (cur)  *)
(* and issues SIOCSIFFLAGS with it.                                        *)
set_promisc(h, flags, cur, enable, ok) ==
    LET word == IF enable THEN cur \cup {IFF_PROMISC} ELSE cur \ {IFF_PROMISC}
    IN [flags |-> IF ok THEN word ELSE flags,
        ret |-> ioctl_ifreq(ok),
        calls |-> <<Call("SIOCSIFFLAGS", h.aux_socket, word)>>]

----------------------------------------------------------------------------
(* Cleanup *)

RestoreWanted_IgnoresOriginal(h) == h.promisc # 0

(* The guard of the restore in pcap_cleanup_haiku, up to the flags query:  *)
(* promiscuous mode was asked for and orig_promisc is zero.                *)
RestoreWanted(h) == h.promisc # 0 /\ h.orig_promisc = 0

MarkAuxClosed_Forgotten(h) == h

(* The auxiliary socket is marked unset once closed. *)
MarkAuxClosed(h) == [h EXCEPT !.aux_socket = -1]

(* pcap_cleanup_haiku *)
pcap_cleanup_haiku(h, fds, flags, o) ==
    LET hasFd == h.fd >= 0
        h1 == IF hasFd THEN [h EXCEPT !.fd = -1, !.selectable_fd = -1] ELSE h
        fds1 == IF hasFd THEN fds \ {h.fd} ELSE fds
        calls1 == IF hasFd THEN <<Call("close", h.fd, {})>> ELSE <<>>
    IN IF h1.aux_socket >= 0
       THEN LET query == RestoreWanted(h1)
                g == IF query THEN get_promisc(h1, flags, o.cget, o.stale)
                     ELSE [ret |-> 0, word |-> {}, calls |-> <<>>]
                \* C truth: any non-zero result, PCAP_ERROR included.
                unset == query /\ g.ret # 0
                st == IF unset THEN set_promisc(h1, flags, g.word, FALSE, o.cset)
                      ELSE [flags |-> flags, ret |-> 0, calls |-> <<>>]
            IN [h |-> MarkAuxClosed(h1),
                fds |-> fds1 \ {h1.aux_socket},
                flags |-> st.flags,
                calls |-> calls1 \o g.calls \o st.calls
                          \o <<Call("close", h1.aux_socket, {})>>,
                badclose |-> (hasFd /\ h.fd \notin fds)
                             \/ h1.aux_socket \notin fds1]
       ELSE [h |-> h1, fds |-> fds1, flags |-> flags, calls |-> calls1,
             badclose |-> hasFd /\ h.fd \notin fds]

----------------------------------------------------------------------------
(* Activation *)

StatsFailureStatus_AnyErrno(errno) == PCAP_ERROR_NO_SUCH_DEVICE

(* The status of a failed SIOCGIFSTATS: EINVAL means no such device. *)
StatsFailureStatus(errno) ==
    IF errno = "EINVAL" THEN PCAP_ERROR_NO_SUCH_DEVICE ELSE PCAP_ERROR

LinkTypeOf_LoopAsEthernet(sdl_type) ==
    CASE sdl_type = IFT_ETHER -> DLT_EN10MB
      [] sdl_type = IFT_TUNNEL -> DLT_RAW
      [] sdl_type = IFT_LOOP -> DLT_EN10MB
      [] OTHER -> DLT_UNSET

(* The switch on sdl_type: the DLT, or DLT_UNSET for the default branch. *)
LinkTypeOf(sdl_type) ==
    CASE sdl_type = IFT_ETHER -> DLT_EN10MB
      [] sdl_type = IFT_TUNNEL -> DLT_RAW
      [] sdl_type = IFT_LOOP -> DLT_RAW
      [] OTHER -> DLT_UNSET

EffectiveSnapshot_KeepsExcess(snapshot) ==
    IF snapshot <= 0 THEN MAXIMUM_SNAPLEN ELSE snapshot

(* The snapshot normalisation. *)
EffectiveSnapshot(snapshot) ==
    IF snapshot <= 0 \/ snapshot > MAXIMUM_SNAPLEN THEN MAXIMUM_SNAPLEN ELSE snapshot

ActivateError_NoCleanup(h, fds, flags, calls, ret, o) ==
    [h |-> [h EXCEPT !.state = "failed", !.ret = ret],
     fds |-> fds, flags |-> flags, calls |-> calls, ccalls |-> <<>>,
     ret |-> ret, cleaned |-> FALSE, badclose |-> FALSE]

(* The error label of pcap_activate_haiku: cleanup, then the status. *)
ActivateError(h, fds, flags, calls, ret, o) ==
    LET c == pcap_cleanup_haiku(h, fds, flags, o)
    IN [h |-> [c.h EXCEPT !.state = "failed", !.ret = ret],
        fds |-> c.fds, flags |-> c.flags, calls |-> calls, ccalls |-> c.calls,
        ret |-> ret, cleaned |-> TRUE, badclose |-> c.badclose]

(* A return of pcap_activate_haiku that does not pass the error label. *)
ActivateReturn(h, fds, flags, calls, ret) ==
    [h |-> [h EXCEPT !.state = "active", !.ret = ret],
     fds |-> fds, flags |-> flags, calls |-> calls, ccalls |-> <<>>,
     ret |-> ret, cleaned |-> FALSE, badclose |-> FALSE]

AlreadyPromisc_Never(h) == FALSE

(* The flag was found on: activation has nothing to enable. *)
AlreadyPromisc(h) == h.orig_promisc # 0

EnableStatus_Fatal(ret) == IF ret < 0 THEN PCAP_ERROR ELSE 0

(* The status of activation after the request to enable promiscuous mode.  *)
EnableStatus(ret) == IF ret < 0 THEN PCAP_WARNING_PROMISC_NOTSUP ELSE 0

(* The promiscuous block at the end of activation. *)
ActivatePromisc(h, fds, flags, calls, o) ==
    IF h.promisc = 0 THEN ActivateReturn(h, fds, flags, calls, 0)
    ELSE LET g == get_promisc(h, flags, o.fail # "SIOCGIFFLAGS", o.stale)
             h1 == [h EXCEPT !.orig_promisc = g.ret]
             calls1 == calls \o g.calls
         IN IF g.ret < 0
            THEN ActivateError(h1, fds, flags, calls1, PCAP_ERROR, o)
            ELSE IF AlreadyPromisc(h1)
            THEN ActivateReturn(h1, fds, flags, calls1, 0)
            ELSE LET st == set_promisc(h1, flags, g.word, TRUE,
                                       o.fail # "SIOCSIFFLAGS")
                 IN ActivateReturn(h1, fds, st.flags, calls1 \o st.calls,
                                   EnableStatus(st.ret))

(* From SIOCSPACKETCAP on: the capture descriptor fd is open and the link  *)
(* type is set.                                                            *)
ActivateCapture(h, fds, flags, calls, o) ==
    LET calls1 == calls \o <<Call("SIOCSPACKETCAP", h.fd, {})>>
    IN IF ioctl_ifreq(o.fail # "SIOCSPACKETCAP") < 0
       THEN ActivateError(h, fds, flags, calls1, PCAP_ERROR, o)
       ELSE LET h1 == [h EXCEPT !.selectable_fd = h.fd, !.ops = TRUE,
                                !.snapshot = EffectiveSnapshot(h.snapshot),
                                !.bufsize = BUFSIZE,
                                !.buffer = (o.fail # "malloc")]
                calls2 == calls1 \o <<Call("malloc", -1, {})>>
            IN IF ~h1.buffer
               THEN ActivateError(h1, fds, flags, calls2, PCAP_ERROR, o)
               ELSE ActivatePromisc(h1, fds, flags, calls2, o)

(* From the capture socket on: the auxiliary socket is open and the        *)
(* baseline of ps_ifdrop is recorded.                                      *)
ActivateLink(h, fds, flags, calls, o) ==
    LET fd == dgram_socket(fds, o.fail # "socket_link")
        h1 == [h EXCEPT !.fd = fd]
        calls1 == calls \o <<Call("socket_link", -1, {})>>
    IN IF fd < 0 THEN ActivateError(h1, fds, flags, calls1, PCAP_ERROR, o)
       ELSE LET fds1 == fds \cup {fd}
                calls2 == calls1 \o <<Call("SIOCGIFADDR", fd, {})>>
            IN IF ioctl_ifreq(o.fail # "SIOCGIFADDR") < 0
               THEN ActivateError(h1, fds1, flags, calls2, PCAP_ERROR, o)
               ELSE LET h2 == h1
                    IN IF o.family # "AF_LINK"
                       THEN ActivateError(h2, fds1, flags, calls2, PCAP_ERROR, o)
                       ELSE IF LinkTypeOf(o.sdl_type) = DLT_UNSET
                       THEN ActivateError(h2, fds1, flags, calls2, PCAP_ERROR, o)
                       ELSE ActivateCapture(
                                [h2 EXCEPT !.linktype = LinkTypeOf(o.sdl_type)],
                                fds1, flags, calls2, o)

(* pcap_activate_haiku *)
pcap_activate_haiku(h, fds, flags, kd, o) ==
    LET aux == dgram_socket(fds, o.fail # "socket_inet")
        h1 == [h EXCEPT !.aux_socket = aux]
        calls1 == <<Call("socket_inet", -1, {})>>
    IN IF aux < 0 THEN ActivateError(h1, fds, flags, calls1, PCAP_ERROR, o)
       ELSE LET fds1 == fds \cup {aux}
                calls2 == calls1 \o <<Call("SIOCGIFSTATS", aux, {})>>
            IN IF ioctl_ifreq(o.fail # "SIOCGIFSTATS") < 0
               THEN ActivateError(h1, fds1, flags, calls2,
                                  StatsFailureStatus(o.errno), o)
               ELSE ActivateLink(
                        [h1 EXCEPT !.ps_ifdrop = kd],
                        fds1, flags, calls2, o)

----------------------------------------------------------------------------
(* Reading *)

CapLen_Unclamped(captureLength, snapshot) == captureLength

(* header.caplen: the smaller of the received length and the snapshot,     *)
(* both as bpf_u_int32.  The received length is at most the buffer size,   *)
(* and a negative snapshot converts to a value of 2^31 or more.            *)
CapLen(captureLength, snapshot) ==
    IF snapshot < 0 \/ captureLength <= snapshot THEN captureLength ELSE snapshot

(* The answers of the environment to one read: how many recvfrom calls a   *)
(* signal interrupts before the final one, during which of them (0: none)  *)
(* a break is requested, whether a break is requested while the final    *)
(* recvfrom waits or from the callback (pcap_breakloop from a signal       *)
(* handler, another thread or the callback), the final answer, and the     *)
(* filter's verdict.                                                       *)
LenChoices == {61, BUFSIZE, BUFSIZE + 1}
AllReadInputs ==
    [intr : 0..MaxIntr, brk : 0..MaxIntr, brkfinal : BOOLEAN,
     res : {"data", "B_WOULD_BLOCK", "EIO"},
     len : LenChoices, accept : BOOLEAN]

(* One input for each way a read can go. *)
ReadInputs ==
    {in \in AllReadInputs :
        /\ in.brk > 0 => (in.intr = in.brk /\ in.res = "EIO" /\ ~in.brkfinal)
        /\ in.res # "data" => (in.len = BUFSIZE /\ in.accept)}

BreakRequested_Ignored(h) == FALSE

(* The test of the break flag at the top of the do-while. *)
BreakRequested(h) == h.break_loop # 0

(* The do-while of pcap_read_haiku from its i-th pass on: the break flag   *)
(* is tested before every recvfrom, and a pass is repeated while recvfrom  *)
(* reports B_INTERRUPTED.  A break requested during the final recvfrom or  *)
(* from the callback is not tested by this read: the flag is still set     *)
(* when it returns.                                                        *)
RECURSIVE ReceiveLoop(_, _, _, _)
ReceiveLoop(h, i, calls, in) ==
    IF BreakRequested(h)
    THEN [h |-> [h EXCEPT !.break_loop = 0], calls |-> calls, res |-> "break"]
    ELSE LET calls1 == calls \o <<Call("recvfrom", h.fd, {})>>
         IN IF i <= in.intr
            THEN ReceiveLoop([h EXCEPT !.break_loop = IF in.brk = i THEN 1 ELSE 0],
                             i + 1, calls1, in)
            ELSE [h |-> [h EXCEPT !.break_loop = IF in.brkfinal THEN 1 ELSE @],
                  calls |-> calls1, res |-> in.res]

NoHdr == [caplen |-> 0, len |-> 0]

CountDrop_Forgotten(h) == h

(* ps_drop++ *)
CountDrop(h) == [h EXCEPT !.ps_drop = Inc32(h.ps_drop)]

ReceiveFailureStatus_AlwaysError(res) == PCAP_ERROR

(* The status of a read whose recvfrom failed: B_WOULD_BLOCK means there   *)
(* is no packet, any other errno is an error.                              *)
ReceiveFailureStatus(res) == IF res = "B_WOULD_BLOCK" THEN 0 ELSE PCAP_ERROR

(* pcap_read_haiku *)
pcap_read_haiku(h, in) ==
    LET r == ReceiveLoop(h, 1, <<>>, in)
        none == [h |-> r.h, calls |-> r.calls, ret |-> 0, cb |-> FALSE,
                 hdr |-> NoHdr, filtered |-> FALSE]
    IN IF r.res = "break" THEN [none EXCEPT !.ret = PCAP_ERROR_BREAK]
       ELSE IF r.res # "data"
       THEN [none EXCEPT !.ret = ReceiveFailureStatus(r.res)]
       ELSE LET h1 == [r.h EXCEPT !.ps_recv = Inc32(r.h.ps_recv)]
            IN IF in.len > h1.bufsize
               THEN [none EXCEPT !.h = h1, !.ret = PCAP_ERROR]
               ELSE IF h1.filter /\ ~in.accept
               THEN [none EXCEPT !.h = CountDrop(h1),
                                 !.filtered = TRUE]
               ELSE [none EXCEPT !.h = h1, !.ret = 1, !.cb = TRUE,
                                 !.filtered = h1.filter,
                                 !.hdr = [caplen |-> CapLen(in.len, h1.snapshot),
                                          len |-> in.len]]

----------------------------------------------------------------------------
(* Statistics and injection *)

NoStats == [ps_recv |-> U32Of(0), ps_drop |-> U32Of(0), ps_ifdrop |-> U32Of(0)]

(* pcap_stats_haiku *)
pcap_stats_haiku(h, kd, ok) ==
    LET copy == [ps_recv |-> h.ps_recv, ps_drop |-> h.ps_drop,
                 ps_ifdrop |-> h.ps_ifdrop]
        calls == <<Call("SIOCGIFSTATS", h.aux_socket, {})>>
    IN IF ioctl_ifreq(ok) < 0
       THEN [h |-> h, calls |-> calls, ret |-> PCAP_ERROR, stats |-> copy]
       ELSE [h |-> h,
             calls |-> calls, ret |-> 0,
             stats |-> [copy EXCEPT !.ps_ifdrop = Sub32(kd, copy.ps_ifdrop)]]

(* pcap_inject_haiku *)
pcap_inject_haiku(h) == PCAP_ERROR

----------------------------------------------------------------------------
(* The state machine *)

SnapshotChoices ==
    {-1, 0, 1, 60, BUFSIZE + 1, MAXIMUM_SNAPLEN, MAXIMUM_SNAPLEN + 1}

(* A name pcapint_create_interface refused: no handle exists. *)
AbsentHandle == [CreatedHandle(0, 0) EXCEPT !.state = "absent"]

(* n datagrams received that fit the buffer, k of them rejected by the     *)
(* filter, cb callbacks, over datagrams longer than the buffer; and, for   *)
(* a handle that asked for promiscuous mode: pre, the flag was on before   *)
(* its activation succeeded, and ext, somebody else has changed the        *)
(* interface's flags while it was active.                                  *)
NoHist == [n |-> 0, k |-> 0, cb |-> 0, over |-> 0, pre |-> FALSE, ext |-> FALSE]

(* The history g of handle h after a step of somebody else. *)
Disturbed(g, h, changed) ==
    IF changed /\ h.state = "active" /\ h.promisc # 0
    THEN [g EXCEPT !.ext = TRUE] ELSE g

NoOracle ==
    [fail |-> "none", errno |-> "EINVAL", family |-> "AF_LINK",
     sdl_type |-> IFT_ETHER, cget |-> TRUE, cset |-> TRUE, stale |-> {}]

NoReadInput ==
    [intr |-> 0, brk |-> 0, brkfinal |-> FALSE, res |-> "B_WOULD_BLOCK",
     len |-> BUFSIZE, accept |-> TRUE]

Issued(calls, op) == \E i \in 1..Len(calls) : calls[i].op = op

(* The answers a run has read: those of calls it did not issue are        *)
(* blanked.  An action takes one input for each way it can go: the         *)
(* inputs that are their own blanked form.                                 *)
SeenOracle(o, ccalls) ==
    LET queried == Issued(ccalls, "SIOCGIFFLAGS")
    IN [o EXCEPT !.cget = IF queried THEN @ ELSE TRUE,
                 !.cset = IF Issued(ccalls, "SIOCSIFFLAGS") THEN @ ELSE TRUE,
                 !.stale = IF queried /\ ~o.cget THEN @ ELSE {}]

SeenInput(in, h) ==
    IF h.break_loop # 0 THEN NoReadInput
    ELSE [in EXCEPT !.accept = IF h.filter /\ in.res = "data" /\ in.len <= BUFSIZE
                               THEN @ ELSE TRUE]

(* The record of the last step: the handle and operation, the snapshot     *)
(* length an activation was asked for, the OS calls of                     *)
(* the operation proper (calls) and of the cleanup it ran (ccalls), its    *)
(* status, whether it ran the callback and the filter, what it handed to   *)
(* the callback or to the caller of stats, and the answers the             *)
(* environment gave it.                                                    *)
NoLast ==
    [s |-> "s1", op |-> "create", snapshot |-> 0,
     calls |-> <<>>, ccalls |-> <<>>, ret |-> 0,
     cb |-> FALSE, filtered |-> FALSE, hdr |-> NoHdr, stats |-> NoStats,
     cleaned |-> FALSE,
     badclose |-> FALSE, o |-> NoOracle, rin |-> NoReadInput]

InitCommon ==
    /\ openFds = {}
    /\ ifFlags \in {{IFF_UP}, {IFF_UP, IFF_PROMISC}}
    /\ kdropped = U32Max
    /\ hist = [s \in Sessions |-> NoHist]
    /\ last = NoLast

(* One capture handle with the default snapshot length, promiscuous mode   *)
(* asked for or not.                                                       *)
Init ==
    /\ \E p \in {0, 1} :
           handles = [s \in Sessions |->
                         IF s = "s1" THEN CreatedHandle(p, 0) ELSE AbsentHandle]
    /\ quota = MaxOps
    /\ world = "any"
    /\ InitCommon

(* One capture handle without promiscuous mode, with any snapshot length. *)
InitRead ==
    /\ \E n \in SnapshotChoices :
           handles = [s \in Sessions |->
                         IF s = "s1" THEN CreatedHandle(0, n) ELSE AbsentHandle]
    /\ quota = MaxOps
    /\ world = "any"
    /\ InitCommon

(* Two capture handles on the same interface. *)
InitTwo ==
    /\ \E p1 \in {0, 1}, p2 \in {0, 1} :
           handles = [s \in Sessions |->
                         CreatedHandle(IF s = "s1" THEN p1 ELSE p2, 0)]
    /\ quota = MaxOpsTwo
    /\ world = "quiet"
    /\ InitCommon

CleanupOracles ==
    {o \in AllOracles : /\ o.fail = "none" /\ o.errno = "EINVAL"
                        /\ o.family = "AF_LINK" /\ o.sdl_type = IFT_ETHER
                        /\ o.cget => o.stale = {}}

CleanupOraclesOf(w) ==
    IF w = "quiet" THEN {o \in CleanupOracles : o.cget} ELSE CleanupOracles

(* In the quiet world no signal interrupts recvfrom and no break is        *)
(* requested during a read; recvfrom answers with a short datagram or      *)
(* with B_WOULD_BLOCK.                                                     *)
QuietReadInputs ==
    {in \in ReadInputs : /\ in.intr = 0 /\ ~in.brkfinal /\ in.res # "EIO"
                         /\ in.res = "data" => in.len = 61}

ReadInputsOf(w) == IF w = "quiet" THEN QuietReadInputs ELSE ReadInputs

(* One more operation on an activated handle, or one more event on the     *)
(* interface: a kernel drop, a change of its flags by somebody else.       *)
Spend == quota > 0 /\ quota' = quota - 1

Activate(s) ==
    /\ handles[s].state = "created"
    /\ \E o \in OraclesOf(world) :
         LET r == pcap_activate_haiku(handles[s], openFds, ifFlags, kdropped, o)
         IN /\ SeenOracle(o, r.ccalls) = o
            /\ handles' = [handles EXCEPT ![s] = r.h]
            /\ openFds' = r.fds
            /\ ifFlags' = r.flags
            /\ last' = [NoLast EXCEPT !.s = s, !.op = "activate",
                                      !.snapshot = handles[s].snapshot,
                                      !.calls = r.calls,
                                      !.ccalls = r.ccalls, !.ret = r.ret,
                                      !.cleaned = r.cleaned,
                                      !.badclose = r.badclose,
                                      !.o = SeenOracle(o, r.ccalls)]
            /\ hist' = [t \in Sessions |->
                   IF t = s
                   THEN [hist[s] EXCEPT !.pre = /\ handles[s].promisc # 0
                                                /\ r.ret >= 0
                                                /\ IFF_PROMISC \in ifFlags]
                   ELSE Disturbed(hist[t], handles[t], r.flags # ifFlags)]
    /\ UNCHANGED <<kdropped, world, quota>>

Read(s) ==
    /\ handles[s].state = "active"
    /\ \E in \in {i \in ReadInputsOf(world) : SeenInput(i, handles[s]) = i} :
         LET h == handles[s]
             r == pcap_read_haiku(h, in)
             got == in.res = "data" /\ r.ret # PCAP_ERROR_BREAK
             fits == in.len <= BUFSIZE
             rejected == got /\ fits /\ h.filter /\ ~in.accept
         IN /\ handles' = [handles EXCEPT ![s] = r.h]
            /\ hist' = [hist EXCEPT
                   ![s].n = @ + (IF got /\ fits THEN 1 ELSE 0),
                   ![s].over = @ + (IF got /\ ~fits THEN 1 ELSE 0),
                   ![s].k = @ + (IF rejected THEN 1 ELSE 0),
                   ![s].cb = @ + (IF r.cb THEN 1 ELSE 0)]
            /\ last' = [NoLast EXCEPT !.s = s, !.op = "read", !.calls = r.calls,
                                      !.ret = r.ret, !.cb = r.cb,
                                      !.filtered = r.filtered, !.hdr = r.hdr,
                                      !.rin = SeenInput(in, h)]
    /\ UNCHANGED <<openFds, ifFlags, kdropped, world>>
    /\ Spend

Stats(s) ==
    /\ handles[s].state = "active"
    /\ \E ok \in BOOLEAN :
         LET r == pcap_stats_haiku(handles[s], kdropped, ok)
         IN /\ handles' = [handles EXCEPT ![s] = r.h]
            /\ last' = [NoLast EXCEPT !.s = s, !.op = "stats", !.calls = r.calls,
                                      !.ret = r.ret, !.stats = r.stats]
    /\ UNCHANGED <<openFds, ifFlags, kdropped, hist, world>>
    /\ Spend

Inject(s) ==
    /\ handles[s].state = "active"
    /\ last' = [NoLast EXCEPT !.s = s, !.op = "inject",
                              !.ret = pcap_inject_haiku(handles[s])]
    /\ UNCHANGED <<handles, openFds, ifFlags, kdropped, hist, world>>
    /\ Spend

Cleanup(s) ==
    /\ handles[s].state # "absent"
    /\ \E o \in CleanupOraclesOf(world) :
         LET r == pcap_cleanup_haiku(handles[s], openFds, ifFlags, o)
         IN /\ SeenOracle(o, r.calls) = o
            /\ handles' = [handles EXCEPT ![s] = [r.h EXCEPT !.state = "closed"]]
            /\ openFds' = r.fds
            /\ ifFlags' = r.flags
            /\ last' = [NoLast EXCEPT !.s = s, !.op = "cleanup", !.ccalls = r.calls,
                                      !.cleaned = TRUE, !.badclose = r.badclose,
                                      !.o = SeenOracle(o, r.calls)]
            /\ hist' = [t \in Sessions |->
                   IF t = s THEN hist[s]
                   ELSE Disturbed(hist[t], handles[t], r.flags # ifFlags)]
    /\ UNCHANGED <<kdropped, world, quota>>

(* pcap_breakloop, from a signal handler or another thread. *)
BreakLoop(s) ==
    /\ handles[s].state = "active"
    /\ handles[s].break_loop = 0
    /\ handles' = [handles EXCEPT ![s].break_loop = 1]
    /\ last' = [NoLast EXCEPT !.s = s, !.op = "breakloop"]
    /\ UNCHANGED <<openFds, ifFlags, kdropped, hist, world>>
    /\ Spend

(* The filter installer stores or removes a compiled program. *)
SetFilter(s) ==
    /\ handles[s].state = "active"
    /\ handles' = [handles EXCEPT ![s].filter = ~@]
    /\ last' = [NoLast EXCEPT !.s = s, !.op = "setfilter"]
    /\ UNCHANGED <<openFds, ifFlags, kdropped, hist, world>>
    /\ Spend

(* Another manager of the interface flips its promiscuous flag. *)
ExternalPromisc ==
    /\ ifFlags' = IF IFF_PROMISC \in ifFlags THEN ifFlags \ {IFF_PROMISC}
                  ELSE ifFlags \cup {IFF_PROMISC}
    /\ hist' = [t \in Sessions |-> Disturbed(hist[t], handles[t], TRUE)]
    /\ last' = [NoLast EXCEPT !.op = "external"]
    /\ UNCHANGED <<handles, openFds, kdropped, world>>
    /\ Spend

(* The kernel drops a frame on the interface. *)
KernelDrop ==
    /\ kdropped = U32Max \/ (kdropped.hi = 0 /\ kdropped.lo < MaxKernelDrops)
    /\ kdropped' = Inc32(kdropped)
    /\ last' = [NoLast EXCEPT !.op = "kerneldrop"]
    /\ UNCHANGED <<handles, openFds, ifFlags, hist, world>>
    /\ Spend

Next ==
    \/ \E s \in Sessions : Activate(s)
    \/ \E s \in Sessions : Read(s)
    \/ \E s \in Sessions : Stats(s)
    \/ \E s \in Sessions : Inject(s)
    \/ \E s \in Sessions : Cleanup(s)
    \/ \E s \in Sessions : BreakLoop(s)
    \/ \E s \in Sessions : SetFilter(s)
    \/ ExternalPromisc
    \/ KernelDrop

Spec == Init /\ [][Next]_vars

SpecRead == InitRead /\ [][Next]_vars

SpecTwo == InitTwo /\ [][Next]_vars

----------------------------------------------------------------------------
(* Properties *)

Closes(calls) == {i \in 1..Len(calls) : calls[i].op = "close"}

(* The step that leads to the primed state is an activation of s. *)
ActivationOf(s) ==
    handles[s].state = "created" /\ last'.op = "activate" /\ last'.s = s

(* The step that leads to the primed state is a cleanup of s called by     *)
(* the application.                                                        *)
CleanupOf(s) == last'.op = "cleanup" /\ last'.s = s

(* C1: when promiscuous mode was requested and activation fails before     *)
(* its promiscuous block (no flags query was issued by activation), the    *)
(* cleanup it runs leaves both descriptors unset, issues no SIOCSIFFLAGS   *)
(* and leaves the interface's flags as they were.                          *)
C1_FailedActivationKeepsFlag ==
    [][\A s \in Sessions :
          (/\ ActivationOf(s)
           /\ handles[s].promisc # 0
           /\ last'.ret < 0
           /\ ~Issued(last'.calls, "SIOCGIFFLAGS"))
          => (/\ handles'[s].fd = -1 /\ handles'[s].aux_socket = -1
              /\ ~Issued(last'.ccalls, "SIOCSIFFLAGS")
              /\ ifFlags' = ifFlags)]_vars

(* This activation turned the flag on: promiscuous mode was requested,     *)
(* the flag was found off and the request to enable it succeeded.          *)
EnabledByActivation(h) ==
    h.state = "active" /\ h.promisc # 0 /\ h.orig_promisc = 0 /\ h.ret = 0

(* C2: a cleanup issues SIOCSIFFLAGS only for a handle whose activation    *)
(* turned the flag on, and only while the flag is on.                      *)
C2_ClearOnlyOwnFlag ==
    [][\A s \in Sessions :
          (CleanupOf(s) /\ Issued(last'.ccalls, "SIOCSIFFLAGS"))
          => (EnabledByActivation(handles[s]) /\ IFF_PROMISC \in ifFlags)]_vars

(* C3: a handle whose activation found the flag on (orig_promisc = 1)      *)
(* issues no SIOCSIFFLAGS, neither in that activation nor in any later     *)
(* operation or cleanup.                                                   *)
C3_FoundOnNeverSets ==
    \A s \in Sessions :
        (handles[s].orig_promisc = 1 /\ last.s = s)
        => (~Issued(last.calls, "SIOCSIFFLAGS")
            /\ ~Issued(last.ccalls, "SIOCSIFFLAGS"))

(* A handle that found the flag on has been cleaned up, descriptors        *)
(* closed, while the flag is on.                                           *)
C3_Witness ==
    /\ last.op = "cleanup" /\ handles[last.s].orig_promisc = 1
    /\ Cardinality(Closes(last.ccalls)) = 2
    /\ IFF_PROMISC \in ifFlags

(* C4: a failed activation has run cleanup before returning: the status    *)
(* is PCAP_ERROR or PCAP_ERROR_NO_SUCH_DEVICE, both descriptors of the     *)
(* handle are -1, and no descriptor the activation used is still open.     *)
C4_FailedActivationClosed ==
    /\ \A s \in Sessions :
          handles[s].state = "failed"
          => (/\ handles[s].fd = -1 /\ handles[s].selectable_fd = -1
              /\ handles[s].aux_socket = -1)
    /\ (last.op = "activate" /\ last.ret < 0)
       => (/\ last.ret \in {PCAP_ERROR, PCAP_ERROR_NO_SUCH_DEVICE}
           /\ last.cleaned
           /\ handles[last.s].state = "failed"
           /\ \A i \in 1..Len(last.calls) : last.calls[i].fd \notin openFds)

(* An activation failed with both sockets open, and cleanup closed both. *)
C4_Witness ==
    /\ last.op = "activate" /\ last.ret < 0
    /\ Cardinality(Closes(last.ccalls)) = 2

(* C5: a cleanup of a handle already cleaned up (by the application or by  *)
(* a failed activation) issues no OS call and changes nothing, and no      *)
(* cleanup ever closes a descriptor that is not open.                      *)
C5_CleanupIdempotent ==
    [][/\ ~last'.badclose
       /\ \A s \in Sessions :
            (CleanupOf(s) /\ handles[s].state \in {"closed", "failed"})
            => (/\ last'.ccalls = <<>>
                /\ handles'[s] = [handles[s] EXCEPT !.state = "closed"]
                /\ handles'[s].fd = -1 /\ handles'[s].aux_socket = -1
                /\ openFds' = openFds /\ ifFlags' = ifFlags)]_vars

(* A cleanup found nothing to do on a handle whose activation had          *)
(* allocated the buffer.                                                   *)
C5_Witness ==
    /\ last.op = "cleanup" /\ last.ccalls = <<>>
    /\ handles[last.s].state = "closed" /\ handles[last.s].buffer

(* C6, as claimed: with two handles that both requested promiscuous mode,  *)
(* a cleanup of one never clears the flag while the other is active.       *)
CleansBesideActive(s, t) ==
    /\ s # t /\ last'.s = s /\ last'.cleaned
    /\ handles[s].promisc # 0 /\ handles[t].promisc # 0
    /\ handles[t].state = "active"
    /\ IFF_PROMISC \in ifFlags

C6_NeverClearsBesideActive ==
    [][\A s, t \in Sessions :
          CleansBesideActive(s, t) => IFF_PROMISC \in ifFlags']_vars

(* C6, amended: a cleanup of a handle whose orig_promisc is not zero       *)
(* never clears the flag while the other handle is active.                 *)
C6_FoundOnKeepsBesideActive ==
    [][\A s, t \in Sessions :
          (CleansBesideActive(s, t) /\ handles[s].orig_promisc # 0)
          => IFF_PROMISC \in ifFlags']_vars

(* A handle that found the flag on has closed its sockets beside an        *)
(* active promiscuous handle, and the flag is on.                          *)
C6_Witness ==
    /\ last.op = "cleanup" /\ handles[last.s].orig_promisc = 1
    /\ Cardinality(Closes(last.ccalls)) = 2
    /\ \E t \in Sessions \ {last.s} :
          handles[t].state = "active" /\ handles[t].promisc # 0
    /\ IFF_PROMISC \in ifFlags

(* The handle can be read and queried: both sockets open, buffer           *)
(* allocated, link type and operations set.                                *)
Usable(h) ==
    /\ h.fd >= 0 /\ h.aux_socket >= 0 /\ h.fd # h.aux_socket
    /\ {h.fd, h.aux_socket} \subseteq openFds
    /\ h.selectable_fd = h.fd
    /\ h.buffer /\ h.bufsize = BUFSIZE
    /\ h.linktype \in {DLT_EN10MB, DLT_RAW}
    /\ h.ops

(* C7: an activation whose request to enable promiscuous mode fails        *)
(* returns PCAP_WARNING_PROMISC_NOTSUP without running cleanup, and the    *)
(* handle stays usable until it is cleaned up.                             *)
C7_WarningLeavesUsable ==
    /\ (/\ last.op = "activate"
        /\ Issued(last.calls, "SIOCSIFFLAGS")
        /\ last.o.fail = "SIOCSIFFLAGS")
       => (/\ last.ret = PCAP_WARNING_PROMISC_NOTSUP
           /\ ~last.cleaned /\ last.ccalls = <<>>
           /\ handles[last.s].state = "active")
    /\ (last.op = "activate" /\ last.ret = PCAP_WARNING_PROMISC_NOTSUP)
       => (/\ Issued(last.calls, "SIOCSIFFLAGS")
           /\ last.o.fail = "SIOCSIFFLAGS"
           /\ handles[last.s].orig_promisc = 0)
    /\ \A s \in Sessions :
          (/\ handles[s].state = "active"
           /\ handles[s].ret = PCAP_WARNING_PROMISC_NOTSUP)
          => Usable(handles[s])

(* After the warning a read has delivered a packet. *)
C7_Witness ==
    /\ last.op = "read" /\ last.cb
    /\ handles[last.s].ret = PCAP_WARNING_PROMISC_NOTSUP

(* The activation failed at a step other than SIOCGIFSTATS. *)
OtherFailure(l) ==
    \/ (/\ l.o.fail \notin {"none", "SIOCGIFSTATS", "SIOCSIFFLAGS"}
        /\ Issued(l.calls, l.o.fail))
    \/ (/\ Issued(l.calls, "SIOCGIFADDR") /\ l.o.fail # "SIOCGIFADDR"
        /\ (l.o.family # "AF_LINK"
            \/ l.o.sdl_type \notin {IFT_ETHER, IFT_TUNNEL, IFT_LOOP}))

(* C8: activation returns PCAP_ERROR_NO_SUCH_DEVICE exactly when           *)
(* SIOCGIFSTATS fails with EINVAL; with another errno, and when any other  *)
(* step fails, it returns PCAP_ERROR.                                      *)
C8_NoSuchDeviceIffStatsEinval ==
    last.op = "activate"
    => (/\ (last.ret = PCAP_ERROR_NO_SUCH_DEVICE)
           <=> (last.o.fail = "SIOCGIFSTATS" /\ last.o.errno = "EINVAL")
        /\ (last.o.fail = "SIOCGIFSTATS" /\ last.o.errno # "EINVAL")
           => last.ret = PCAP_ERROR
        /\ OtherFailure(last) => last.ret = PCAP_ERROR
        /\ last.ret < 0
           => (last.o.fail = "SIOCGIFSTATS" \/ OtherFailure(last)))

(* SIOCGIFSTATS failed with EINVAL. *)
C8_Witness ==
    /\ last.op = "activate" /\ last.ret = PCAP_ERROR_NO_SUCH_DEVICE
    /\ last.o.fail = "SIOCGIFSTATS" /\ last.o.errno = "EINVAL"

(* C9: while no datagram longer than the buffer has arrived, ps_recv is    *)
(* the number of datagrams received, ps_drop the number the filter         *)
(* rejected, the callback ran once for each of the others, and stats       *)
(* reports these two counters.                                             *)
C9_CountersMatchReads ==
    \A s \in Sessions :
        hist[s].over = 0
        => (/\ handles[s].ps_recv = U32Of(hist[s].n)
            /\ handles[s].ps_drop = U32Of(hist[s].k)
            /\ hist[s].cb = hist[s].n - hist[s].k
            /\ (last.op = "stats" /\ last.s = s)
               => (/\ last.stats.ps_recv = U32Of(hist[s].n)
                   /\ last.stats.ps_drop = U32Of(hist[s].k)))

(* Two datagrams were received, the filter rejected one. *)
C9_Witness ==
    \E s \in Sessions :
        /\ hist[s].n = 2 /\ hist[s].k = 1 /\ hist[s].cb = 1 /\ hist[s].over = 0
        /\ last.op = "read" /\ last.s = s

Min(a, b) == IF a <= b THEN a ELSE b

(* C10: the header handed to the callback has len = the received length    *)
(* and caplen = min(received length, snapshot), at most the buffer size.   *)
C10_CaplenIsMin ==
    (last.op = "read" /\ last.cb)
    => (/\ last.hdr.len = last.rin.len
        /\ last.hdr.caplen = Min(last.rin.len, handles[last.s].snapshot)
        /\ last.hdr.caplen <= BUFSIZE
        /\ last.hdr.caplen <= handles[last.s].bufsize)

(* A datagram that fills the buffer was delivered under a snapshot length  *)
(* above the buffer size.                                                  *)
C10_Witness ==
    /\ last.op = "read" /\ last.cb
    /\ handles[last.s].snapshot > BUFSIZE
    /\ last.rin.len = BUFSIZE /\ last.hdr.caplen = BUFSIZE

(* The step that leads to the primed state is a read of s. *)
ReadOf(s) == handles[s].state = "active" /\ last'.op = "read" /\ last'.s = s

(* C11: a read whose recvfrom reports B_WOULD_BLOCK returns 0, runs        *)
(* neither the callback nor the filter, and leaves ps_recv and ps_drop     *)
(* as they were.                                                           *)
C11_WouldBlockReturnsZero ==
    [][\A s \in Sessions :
          (/\ ReadOf(s)
           /\ Issued(last'.calls, "recvfrom")
           /\ last'.rin.res = "B_WOULD_BLOCK")
          => (/\ last'.ret = 0
              /\ ~last'.cb /\ ~last'.filtered
              /\ handles'[s].ps_recv = handles[s].ps_recv
              /\ handles'[s].ps_drop = handles[s].ps_drop)]_vars

(* A read met B_WOULD_BLOCK on a handle with a filter installed that has   *)
(* already received a datagram.                                            *)
C11_Witness ==
    /\ last.op = "read" /\ last.rin.res = "B_WOULD_BLOCK"
    /\ Issued(last.calls, "recvfrom")
    /\ last.ret = 0
    /\ handles[last.s].filter
    /\ handles[last.s].ps_recv = U32Of(1)

(* C12: a handle that has been cleaned up, by the application or by a      *)
(* failed activation, holds no allocated receive buffer.                   *)
C12_CleanupReleasesBuffer ==
    \A s \in Sessions :
        handles[s].state \in {"closed", "failed"} => ~handles[s].buffer

Recognised == {IFT_ETHER, IFT_TUNNEL, IFT_LOOP}

(* The activation read the address record of the interface. *)
AddressRead(l) ==
    l.op = "activate" /\ Issued(l.calls, "SIOCGIFADDR") /\ l.o.fail # "SIOCGIFADDR"

(* C13: an activation that succeeds has set the link type to DLT_EN10MB    *)
(* for IFT_ETHER and to DLT_RAW for IFT_TUNNEL and IFT_LOOP; with any      *)
(* other type, or with a family other than AF_LINK, activation returns     *)
(* PCAP_ERROR; and no read, stats query or inject changes the link type    *)
(* of an active handle.                                                    *)
C13_LinkTypeMapping ==
    [][/\ AddressRead(last')
          => (/\ last'.ret >= 0
                 => (/\ last'.o.family = "AF_LINK"
                     /\ last'.o.sdl_type \in Recognised
                     /\ handles'[last'.s].linktype =
                            (IF last'.o.sdl_type = IFT_ETHER
                             THEN DLT_EN10MB ELSE DLT_RAW))
              /\ (last'.o.family # "AF_LINK"
                  \/ last'.o.sdl_type \notin Recognised)
                 => last'.ret = PCAP_ERROR)
       /\ \A s \in Sessions :
            (handles[s].state = "active"
             /\ last'.op \in {"read", "stats", "inject"})
            => handles'[s].linktype = handles[s].linktype]_vars

(* A read has delivered a packet on a handle whose link type is DLT_RAW. *)
C13_Witness ==
    /\ last.op = "read" /\ last.cb
    /\ handles[last.s].linktype = DLT_RAW

(* C14: after a successful activation the snapshot length is in            *)
(* 1..MAXIMUM_SNAPLEN: MAXIMUM_SNAPLEN when the length asked for was zero, *)
(* negative or above MAXIMUM_SNAPLEN, and the length asked for otherwise.  *)
C14_SnapshotNormalised ==
    /\ \A s \in Sessions :
          handles[s].state = "active"
          => handles[s].snapshot \in 1..MAXIMUM_SNAPLEN
    /\ (last.op = "activate" /\ last.ret >= 0)
       => (/\ (last.snapshot <= 0 \/ last.snapshot > MAXIMUM_SNAPLEN)
              => handles[last.s].snapshot = MAXIMUM_SNAPLEN
           /\ last.snapshot \in 1..MAXIMUM_SNAPLEN
              => handles[last.s].snapshot = last.snapshot)

(* An activation asked for more than MAXIMUM_SNAPLEN has succeeded. *)
C14_Witness ==
    /\ last.op = "activate" /\ last.ret = 0
    /\ last.snapshot = MAXIMUM_SNAPLEN + 1
    /\ handles[last.s].snapshot = MAXIMUM_SNAPLEN

OpsOf(calls) == [i \in 1..Len(calls) |-> calls[i].op]

IsPrefix(p, q) == Len(p) <= Len(q) /\ \A i \in 1..Len(p) : p[i] = q[i]

(* The call the environment made fail was issued. *)
FailedAt(l) == l.o.fail # "none" /\ Issued(l.calls, l.o.fail)

(* The address record read does not name a recognised link-layer type. *)
Unrecognised(l) ==
    AddressRead(l)
    /\ (l.o.family # "AF_LINK" \/ l.o.sdl_type \notin Recognised)

(* C15: the OS calls of an activation are an initial part of the fixed     *)
(* order socket(AF_INET), SIOCGIFSTATS, socket(AF_LINK), SIOCGIFADDR,      *)
(* SIOCSPACKETCAP, malloc, SIOCGIFFLAGS, SIOCSIFFLAGS; the two flags       *)
(* ioctls are issued only when promiscuous mode was asked for, and         *)
(* SIOCSIFFLAGS only when the flag was found off; the call that failed is  *)
(* the last call issued, an activation that fails has run cleanup, the     *)
(* capture socket is opened only after the baseline was read, and          *)
(* SIOCSPACKETCAP is not issued for an unrecognised interface type.        *)
C15_ActivationOrder ==
    last.op = "activate"
    => LET ops == OpsOf(last.calls)
           h == handles[last.s]
       IN /\ Len(ops) >= 1 /\ IsPrefix(ops, ActivateCalls)
          /\ h.promisc = 0 => Len(ops) <= 6
          /\ Issued(last.calls, "SIOCSIFFLAGS") => h.orig_promisc = 0
          /\ FailedAt(last) => ops[Len(ops)] = last.o.fail
          /\ Unrecognised(last) => ops[Len(ops)] = "SIOCGIFADDR"
          /\ last.ret < 0
             => (last.cleaned /\ (FailedAt(last) \/ Unrecognised(last)))
          /\ (FailedAt(last) /\ last.o.fail # "SIOCSIFFLAGS") => last.ret < 0
          /\ Unrecognised(last) => last.ret < 0
          /\ last.ret >= 0
             => (/\ Len(ops) >= 6
                 /\ h.promisc # 0 => Len(ops) >= 7
                 /\ (h.promisc # 0 /\ h.orig_promisc = 0) => Len(ops) = 8)
          /\ Issued(last.calls, "socket_link") => h.ps_ifdrop = kdropped

(* An activation asked for promiscuous mode has failed at malloc, after    *)
(* six calls, and has run cleanup.                                         *)
C15_Witness ==
    /\ last.op = "activate" /\ last.o.fail = "malloc" /\ last.ret = PCAP_ERROR
    /\ handles[last.s].promisc = 1
    /\ Len(last.calls) = 6 /\ last.cleaned

(* C16: the link type of a handle changes only in an activation that       *)
(* returns success, and only from its initial value; an activation that    *)
(* returns a failure status leaves the link type as it was.                *)
C16_LinkTypeOnlyOnSuccess ==
    [][\A s \in Sessions :
          /\ handles'[s].linktype # handles[s].linktype
             => (/\ ActivationOf(s) /\ last'.ret >= 0
                 /\ handles[s].linktype = DLT_UNSET)
          /\ (ActivationOf(s) /\ last'.ret < 0)
             => handles'[s].linktype = handles[s].linktype]_vars

(* C17: a cleanup, run by the application or by a failed activation,       *)
(* issues SIOCSIFFLAGS only after its SIOCGIFFLAGS succeeded and reported  *)
(* IFF_PROMISC set; when its SIOCGIFFLAGS fails it issues no SIOCSIFFLAGS  *)
(* and still closes the auxiliary socket.                                  *)
C17_SetOnlyAfterGoodQuery ==
    [][last'.cleaned
       => (/\ Issued(last'.ccalls, "SIOCSIFFLAGS")
              => (/\ Issued(last'.ccalls, "SIOCGIFFLAGS")
                  /\ last'.o.cget
                  /\ IFF_PROMISC \in ifFlags)
           /\ (Issued(last'.ccalls, "SIOCGIFFLAGS") /\ ~last'.o.cget)
              => (/\ ~Issued(last'.ccalls, "SIOCSIFFLAGS")
                  /\ handles'[last'.s].aux_socket = -1
                  /\ handles[last'.s].aux_socket \notin openFds'))]_vars

(* The activation of h succeeded with every flags ioctl it issued. *)
ActivatedClean(h) == h.promisc # 0 /\ h.ops /\ h.ret = 0

(* C18: while nobody else changes the interface's flags and every flags    *)
(* ioctl succeeds, the flag is on while a handle that asked for            *)
(* promiscuous mode is active, and the cleanup that closes its sockets     *)
(* leaves the flag as it was before the activation; no operation on a      *)
(* handle that did not ask for promiscuous mode issues SIOCSIFFLAGS.       *)
C18_RestorationRoundTrip ==
    \A s \in Sessions :
        /\ (/\ handles[s].state = "active" /\ ActivatedClean(handles[s])
            /\ ~hist[s].ext)
           => IFF_PROMISC \in ifFlags
        /\ (/\ last.op = "cleanup" /\ last.s = s
            /\ Cardinality(Closes(last.ccalls)) = 2
            /\ ActivatedClean(handles[s]) /\ ~hist[s].ext
            /\ last.o.cget /\ last.o.cset)
           => ((IFF_PROMISC \in ifFlags) <=> hist[s].pre)
        /\ (handles[s].promisc = 0 /\ last.s = s)
           => (/\ ~Issued(last.calls, "SIOCSIFFLAGS")
               /\ ~Issued(last.ccalls, "SIOCSIFFLAGS"))

(* A handle that turned the flag on has been cleaned up, undisturbed, and  *)
(* the flag is off again.                                                  *)
C18_Witness ==
    /\ last.op = "cleanup" /\ Cardinality(Closes(last.ccalls)) = 2
    /\ ActivatedClean(handles[last.s]) /\ ~hist[last.s].ext
    /\ Issued(last.ccalls, "SIOCSIFFLAGS") /\ last.o.cget /\ last.o.cset
    /\ ~hist[last.s].pre /\ IFF_PROMISC \notin ifFlags

(* C19: a read entered with the break flag set clears the flag and         *)
(* returns PCAP_ERROR_BREAK without any recvfrom, callback or filter run   *)
(* and with the counters as they were; a break requested during an         *)
(* interrupted recvfrom is honoured before the retry, in the same read;    *)
(* a read that returns PCAP_ERROR_BREAK leaves the flag clear, and a read  *)
(* entered with the flag clear and not broken before a retry goes on to    *)
(* the final recvfrom, leaving the flag set only when a break was          *)
(* requested during that recvfrom or from the callback.                    *)
C19_BreakHonoured ==
    [][\A s \in Sessions :
          ReadOf(s)
          => (/\ handles[s].break_loop # 0
                 => (/\ last'.ret = PCAP_ERROR_BREAK
                     /\ last'.calls = <<>>
                     /\ ~last'.cb /\ ~last'.filtered
                     /\ handles'[s] = [handles[s] EXCEPT !.break_loop = 0])
              /\ (handles[s].break_loop = 0 /\ last'.rin.brk > 0)
                 => (/\ last'.ret = PCAP_ERROR_BREAK
                     /\ Len(last'.calls) = last'.rin.brk
                     /\ ~last'.cb /\ ~last'.filtered
                     /\ handles'[s] = handles[s])
              /\ (handles[s].break_loop = 0 /\ last'.rin.brk = 0)
                 => (/\ last'.ret # PCAP_ERROR_BREAK
                     /\ Len(last'.calls) = last'.rin.intr + 1
                     /\ (handles'[s].break_loop # 0) <=> last'.rin.brkfinal)
              /\ last'.ret = PCAP_ERROR_BREAK
                 => handles'[s].break_loop = 0)]_vars

(* A break was requested while a read that delivered a packet was in      *)
(* recvfrom or in the callback; the next read, the second operation on     *)
(* the handle, found the flag set and returned PCAP_ERROR_BREAK without    *)
(* calling recvfrom.                                                       *)
C19_Witness ==
    /\ last.op = "read" /\ last.ret = PCAP_ERROR_BREAK /\ last.calls = <<>>
    /\ handles[last.s].break_loop = 0
    /\ handles[last.s].ps_recv = U32Of(1)
    /\ quota = MaxOps - 2

(* x + n modulo 2^32 *)
RECURSIVE AddN(_, _)
AddN(x, n) == IF n = 0 THEN x ELSE AddN(Inc32(x), n - 1)

(* C20: a successful stats query reports ps_recv and ps_drop as they are   *)
(* and ps_ifdrop = d, where the kernel's total is the baseline plus d      *)
(* modulo 2^32; the query leaves the handle as it is, and the baseline is  *)
(* written by activation only.                                             *)
C20_StatsAgainstBaseline ==
    [][\A s \in Sessions :
          /\ (ActivationOf(s) /\ last'.ret >= 0)
             => handles'[s].ps_ifdrop = kdropped
          /\ ~ActivationOf(s) => handles'[s].ps_ifdrop = handles[s].ps_ifdrop
          /\ (handles[s].state = "active" /\ last'.op = "stats" /\ last'.s = s)
             => (/\ handles'[s] = handles[s]
                 /\ last'.ret = 0
                    => (/\ last'.stats.ps_recv = handles[s].ps_recv
                        /\ last'.stats.ps_drop = handles[s].ps_drop
                        /\ \E d \in 0..(MaxKernelDrops + 1) :
                              /\ AddN(handles[s].ps_ifdrop, d) = kdropped
                              /\ last'.stats.ps_ifdrop = U32Of(d)))]_vars

(* The kernel's total has wrapped around since the activation, and a       *)
(* stats query after a delivered packet reports one interface drop.        *)
C20_Witness ==
    /\ last.op = "stats" /\ last.ret = 0
    /\ handles[last.s].ps_ifdrop = U32Max /\ kdropped = U32Of(0)
    /\ last.stats.ps_ifdrop = U32Of(1)

====
